---------------------------- MODULE Spec2Model ----------------------------
(***************************************************************************)
(* Introsort of src/introsort_goes_brr.py as a state machine.              *)
(*                                                                         *)
(* The buffer is a function 0..n-1 -> Nat (the code's 0-based list).  One  *)
(* step is one statement of the code that reads or writes the buffer or    *)
(* moves a cursor: every single buffer write is a step of its own, so the  *)
(* states between the two writes of a tuple swap and between the shifts of *)
(* insertion sort are states of the model.                                 *)
(***************************************************************************)
EXTENDS Integers, Sequences, FiniteSets

\* ------------------------------------------------------------------ bounds
\* Largest length of the patterned inputs.
MaxLen == 40
\* Largest modulus of the patterned inputs.
MaxMod == 6
\* Largest length of the patterned buffers _heapsort_partial is called on.
HeapLen == 7
\* Largest length of the exhaustively enumerated small buffers.
SmallLen == 4
\* Largest element value of the exhaustively enumerated small buffers.
MaxVal == 2

\* ------------------------------------------------------- program constants
\* USE_NINTHERS, the module-level pivot toggle.
USE_NINTHERS == TRUE
\* The insertion-sort threshold of _introsort.
InsertionThreshold == 16
\* The number of samples of _median_of_ninthers.
NintherSamples == 9

\* ----------------------------------------------------------------- helpers
Size(a) == Cardinality(DOMAIN a)

Min2(x, y) == IF x < y THEN x ELSE y

Max2(x, y) == IF x > y THEN x ELSE y

\* int.bit_length()
RECURSIVE BitLength(_)
BitLength(n) == IF n = 0 THEN 0 ELSE 1 + BitLength(n \div 2)

\* x >> 1
Shr1(x) == x \div 2

\* ------------------------------------------------------------------ inputs
\* (a*k*k + b*k) mod m: all-equal (a = b = 0), sawtooth (a = 0, b = 1) and
\* scrambled residues with many or few repeats.
ModPattern(n, a, b, m) == [k \in 0..(n - 1) |-> (a * k * k + b * k) % m]

Ascending(n) == [k \in 0..(n - 1) |-> k + 1]

Descending(n) == [k \in 0..(n - 1) |-> n - k]

OrganPipe(n) == [k \in 0..(n - 1) |-> Min2(k, n - 1 - k)]

\* An input built against median-of-ninthers on which the partitions stay
\* maximally unbalanced for more than 2*floor(log2(n)) successive steps.
KillerSeq ==
  << 0, 9, 29, 65, 6, 33, 63, 53, 24, 1, 12, 49, 7, 73, 70, 27, 18, 64, 13,
     46, 47, 59, 23, 19, 75, 50, 69, 2, 8, 67, 42, 68, 35, 30, 14, 44, 3, 20,
     36, 40, 25, 58, 15, 41, 21, 31, 26, 62, 37, 57, 52, 32, 10, 38, 4, 43,
     48, 72, 16, 54, 11, 76, 55, 5, 28, 22, 17, 45, 39, 34, 71, 56, 51, 74,
     60, 83, 66, 61, 77, 78, 79, 80, 81 >>

Killer == [k \in 0..(Len(KillerSeq) - 1) |-> KillerSeq[k + 1]]

SmallBuffers == UNION {[0..(n - 1) -> 0..MaxVal] : n \in 0..SmallLen}

ModPatterns(n) ==
  UNION {{ModPattern(n, a, b, m) : a \in 0..(m - 1), b \in 0..(m - 1)} : m \in 1..MaxMod}

Patterns(n) == ModPatterns(n) \cup {Ascending(n), Descending(n), OrganPipe(n)}

PatternBuffers == UNION {Patterns(n) : n \in 0..MaxLen}

\* The buffers introsort is called on.
Buffers == SmallBuffers \cup PatternBuffers \cup {Killer}

\* The buffers _heapsort_partial is called on directly, on every range of each.
HeapBuffers == SmallBuffers \cup UNION {Patterns(n) : n \in 1..HeapLen}

\* The buffers of the fair specification.
PlainBuffers ==
  SmallBuffers \cup {Killer}
    \cup UNION {{ModPattern(n, 0, 0, 1), Ascending(n), Descending(n), OrganPipe(n)}
                 : n \in 0..MaxLen}

\* ------------------------------------------------------------------- state
VARIABLES
  input,   \* the caller's sequence, as passed in
  arr,     \* the buffer being sorted (a copy of input, mutated in place)
  entry,   \* the function the caller invoked
  stack,   \* the active _introsort activations, innermost last
  pc,      \* the statement the innermost active function is at
  loc,     \* the locals of the active _insertion_sort or _heapsort_partial
  nPart,   \* history: partition steps completed
  nIns,    \* history: calls of _insertion_sort
  nHeap    \* history: calls of _heapsort_partial

vars == <<input, arr, entry, stack, pc, loc, nPart, nIns, nHeap>>

NoLoc == [low |-> 0, high |-> 0, i |-> 0, j |-> 0, temp |-> 0,
          n |-> 0, end |-> 0, si |-> 0, sn |-> 0, largest |-> 0, phase |-> "none"]

\* An activation of _introsort(arr, low, high, maxdepth).  chain is history:
\* the partition steps performed on the ranges enclosing the current one.
Frame(low, high, maxdepth, chain) ==
  [low |-> low, high |-> high, maxdepth |-> maxdepth, pivot |-> 0,
   i |-> 0, j |-> 0, t |-> 0, ret |-> "none", chain |-> chain]

Top == stack[Len(stack)]

SetTop(f) == [stack EXCEPT ![Len(stack)] = f]

Init ==
  /\ input \in Buffers
  /\ arr = input
  /\ \/ /\ entry = "introsort"
        /\ loc = NoLoc
     \/ /\ entry = "_heapsort_partial"
        /\ input \in HeapBuffers
        /\ \E low \in DOMAIN input : \E high \in DOMAIN input :
             /\ low <= high
             /\ loc = [NoLoc EXCEPT !.low = low, !.high = high]
  /\ stack = <<>>
  /\ pc = "start"
  /\ nPart = 0
  /\ nIns = 0
  /\ nHeap = 0

\* ---------------------------------------------------------- pivot helpers
\* sorted() of a three-element list.
Sorted3(s) ==
  LET lo == Min2(s[1], Min2(s[2], s[3]))
      hi == Max2(s[1], Max2(s[2], s[3]))
      mid == s[1] + s[2] + s[3] - lo - hi
  IN  <<lo, mid, hi>>

MedianOfThree(a, low, high) ==
  LET mid == Shr1(low + high)
      x == a[low]
      y == a[mid]
      z == a[high]
  IN  IF x < y
        THEN IF y < z THEN y ELSE IF x < z THEN z ELSE x
        ELSE IF x < z THEN x ELSE IF y < z THEN z ELSE y

\* The last element of the range taken as the pivot.
PivotLastElement(a, low, high) == a[high]

MedianOfNinthers(a, low, high) ==
  LET size == high - low + 1
      step == Max2(size \div NintherSamples, 1)
      samples == [s \in 1..NintherSamples |-> a[low + (s - 1) * step]]
      medians == [g \in 1..3 |-> Sorted3(SubSeq(samples, 3 * g - 2, 3 * g))[2]]
  IN  IF size < NintherSamples
        THEN a[Shr1(low + high)]
        ELSE Sorted3(medians)[2]

SelectPivot(a, low, high) ==
  IF USE_NINTHERS THEN MedianOfNinthers(a, low, high) ELSE MedianOfThree(a, low, high)

\* 2 * floor(log2(len(arr))), as introsort computes it.
InitialBudget(n) == (BitLength(n) - 1) * 2

\* ------------------------------------------------------------- the driver
\* introsort(arr): compute the depth budget and call _introsort on 0..n-1.
CallIntrosort ==
  /\ pc = "start"
  /\ entry = "introsort"
  /\ stack' = <<Frame(0, Size(arr) - 1, InitialBudget(Size(arr)), 0)>>
  /\ pc' = "loop"
  /\ UNCHANGED <<input, arr, entry, loc, nPart, nIns, nHeap>>

\* The threshold test with < for <=.
UseInsertionBelow(low, high) == high - low + 1 < InsertionThreshold

UseInsertion(low, high) == high - low + 1 <= InsertionThreshold

\* The head of the driver loop: leave the loop, or pick the sub-algorithm
\* by range size first and depth budget second, or select a pivot.
Dispatch ==
  /\ pc = "loop"
  /\ LET f == Top IN
       IF ~(f.low < f.high) THEN
         /\ pc' = "return"
         /\ UNCHANGED <<stack, loc, nIns, nHeap>>
       ELSE IF UseInsertion(f.low, f.high) THEN
         /\ pc' = "ins_for"
         /\ loc' = [NoLoc EXCEPT !.low = f.low, !.high = f.high, !.i = f.low + 1]
         /\ nIns' = nIns + 1
         /\ UNCHANGED <<stack, nHeap>>
       ELSE IF f.maxdepth = 0 THEN
         /\ pc' = "heap_build"
         /\ loc' = [NoLoc EXCEPT !.low = f.low, !.high = f.high,
                                 !.n = f.high - f.low + 1,
                                 !.i = Shr1(f.high - f.low + 1) - 1]
         /\ nHeap' = nHeap + 1
         /\ UNCHANGED <<stack, nIns>>
       ELSE
         /\ pc' = "advance_i"
         /\ stack' = SetTop([f EXCEPT !.pivot = SelectPivot(arr, f.low, f.high),
                                      !.i = f.low - 1, !.j = f.high + 1])
         /\ UNCHANGED <<loc, nIns, nHeap>>
  /\ UNCHANGED <<input, arr, entry, nPart>>

\* i += 1
PartitionAdvanceI ==
  /\ pc = "advance_i"
  /\ stack' = SetTop([Top EXCEPT !.i = @ + 1])
  /\ pc' = "scan_i"
  /\ UNCHANGED <<input, arr, entry, loc, nPart, nIns, nHeap>>

\* while arr[i] < pivot: i += 1   (one test of the condition)
PartitionScanI ==
  /\ pc = "scan_i"
  /\ IF arr[Top.i] < Top.pivot
       THEN /\ stack' = SetTop([Top EXCEPT !.i = @ + 1])
            /\ pc' = "scan_i"
       ELSE /\ pc' = "advance_j"
            /\ UNCHANGED stack
  /\ UNCHANGED <<input, arr, entry, loc, nPart, nIns, nHeap>>

\* j -= 1
PartitionAdvanceJ ==
  /\ pc = "advance_j"
  /\ stack' = SetTop([Top EXCEPT !.j = @ - 1])
  /\ pc' = "scan_j"
  /\ UNCHANGED <<input, arr, entry, loc, nPart, nIns, nHeap>>

\* while arr[j] > pivot: j -= 1   (one test of the condition)
PartitionScanJ ==
  /\ pc = "scan_j"
  /\ IF arr[Top.j] > Top.pivot
       THEN /\ stack' = SetTop([Top EXCEPT !.j = @ - 1])
            /\ pc' = "scan_j"
       ELSE /\ pc' = "test"
            /\ UNCHANGED stack
  /\ UNCHANGED <<input, arr, entry, loc, nPart, nIns, nHeap>>

\* if i >= j: break
PartitionTest ==
  /\ pc = "test"
  /\ pc' = IF Top.i >= Top.j THEN "split" ELSE "swap"
  /\ UNCHANGED <<input, arr, entry, stack, loc, nPart, nIns, nHeap>>

\* arr[i], arr[j] = arr[j], arr[i]: both values are read, then arr[i] is stored.
SwapFirstWrite ==
  /\ pc = "swap"
  /\ stack' = SetTop([Top EXCEPT !.t = arr[Top.i]])
  /\ arr' = [arr EXCEPT ![Top.i] = arr[Top.j]]
  /\ pc' = "swap2"
  /\ UNCHANGED <<input, entry, loc, nPart, nIns, nHeap>>

\* The second store going back to the test without the cursors moving.
SwapSecondWriteNoAdvance ==
  /\ pc = "swap2"
  /\ arr' = [arr EXCEPT ![Top.j] = Top.t]
  /\ pc' = "test"
  /\ UNCHANGED <<input, entry, stack, loc, nPart, nIns, nHeap>>

\* ... then arr[j] is stored, and the partition loop goes round.
SwapSecondWrite ==
  /\ pc = "swap2"
  /\ arr' = [arr EXCEPT ![Top.j] = Top.t]
  /\ pc' = "advance_i"
  /\ UNCHANGED <<input, entry, stack, loc, nPart, nIns, nHeap>>

\* The comparison turned round: the nested call gets the larger subrange.
LeftIsLarger(low, high, j) == j - low > high - j

\* if j - low < high - j
LeftIsSmaller(low, high, j) == j - low < high - j

\* The budget the loop carries on with after a partition step.
LoopBudget(maxdepth) == maxdepth

\* The nested call on one subrange; the other one waits in the caller.
Recurse ==
  /\ pc = "split"
  /\ LET f == Top
         g == [f EXCEPT !.ret = IF LeftIsSmaller(f.low, f.high, f.j) THEN "left" ELSE "right",
                        !.maxdepth = LoopBudget(f.maxdepth),
                        !.chain = @ + 1]
         callee == IF LeftIsSmaller(f.low, f.high, f.j)
                     THEN Frame(f.low, f.j, f.maxdepth - 1, f.chain + 1)
                     ELSE Frame(f.j + 1, f.high, f.maxdepth - 1, f.chain + 1)
     IN  stack' = Append(SetTop(g), callee)
  /\ pc' = "loop"
  /\ nPart' = nPart + 1
  /\ UNCHANGED <<input, arr, entry, loc, nIns, nHeap>>

\* An activation of _introsort returns; its caller takes the other subrange
\* as the new current range (low = j + 1, or high = j) and loops.
Return ==
  /\ pc = "return"
  /\ IF Len(stack) = 1
       THEN /\ stack' = <<>>
            /\ pc' = "done"
       ELSE LET c == stack[Len(stack) - 1]
                d == IF c.ret = "left"
                       THEN [c EXCEPT !.low = c.j + 1, !.ret = "none"]
                       ELSE [c EXCEPT !.high = c.j, !.ret = "none"]
            IN  /\ stack' = Append(SubSeq(stack, 1, Len(stack) - 2), d)
                /\ pc' = "loop"
  /\ UNCHANGED <<input, arr, entry, loc, nPart, nIns, nHeap>>

\* ---------------------------------------------------------- insertion sort
\* for i in range(low + 1, high + 1): temp = arr[i]; j = i - 1
\* When the range is exhausted _insertion_sort returns, and so does _introsort.
InsertionFor ==
  /\ pc = "ins_for"
  /\ IF loc.i <= loc.high
       THEN /\ loc' = [loc EXCEPT !.temp = arr[loc.i], !.j = loc.i - 1]
            /\ pc' = "ins_while"
       ELSE /\ pc' = "return"
            /\ UNCHANGED loc
  /\ UNCHANGED <<input, arr, entry, stack, nPart, nIns, nHeap>>

\* The guard with the bound off by one: arr[low] is never compared.
ShiftGuardSkipsFirst(a, low, j, temp) == j > low /\ a[j] > temp

\* while j >= low and arr[j] > temp
ShiftGuard(a, low, j, temp) == j >= low /\ a[j] > temp

\* One test of the while condition and, when it holds, one shift:
\* arr[j + 1] = arr[j]; j -= 1
InsertionWhile ==
  /\ pc = "ins_while"
  /\ IF ShiftGuard(arr, loc.low, loc.j, loc.temp)
       THEN /\ arr' = [arr EXCEPT ![loc.j + 1] = arr[loc.j]]
            /\ loc' = [loc EXCEPT !.j = @ - 1]
            /\ pc' = "ins_while"
       ELSE /\ pc' = "ins_put"
            /\ UNCHANGED <<arr, loc>>
  /\ UNCHANGED <<input, entry, stack, nPart, nIns, nHeap>>

\* arr[j + 1] = temp
InsertionPut ==
  /\ pc = "ins_put"
  /\ arr' = [arr EXCEPT ![loc.j + 1] = loc.temp]
  /\ loc' = [loc EXCEPT !.i = @ + 1]
  /\ pc' = "ins_for"
  /\ UNCHANGED <<input, entry, stack, nPart, nIns, nHeap>>

\* ----------------------------------------------------------- heap fallback
\* _heapsort_partial(arr, low, high) called on its own: n = high - low + 1
CallHeapsortPartial ==
  /\ pc = "start"
  /\ entry = "_heapsort_partial"
  /\ loc' = [loc EXCEPT !.n = loc.high - loc.low + 1,
                        !.i = Shr1(loc.high - loc.low + 1) - 1]
  /\ pc' = "heap_build"
  /\ nHeap' = nHeap + 1
  /\ UNCHANGED <<input, arr, entry, stack, nPart, nIns>>

\* for i in range((n >> 1) - 1, -1, -1): sift(low, n, i)
HeapBuild ==
  /\ pc = "heap_build"
  /\ IF loc.i >= 0
       THEN /\ loc' = [loc EXCEPT !.si = loc.i, !.sn = loc.n, !.phase = "build"]
            /\ pc' = "sift"
       ELSE /\ loc' = [loc EXCEPT !.end = loc.n - 1]
            /\ pc' = "heap_pop"
  /\ UNCHANGED <<input, arr, entry, stack, nPart, nIns, nHeap>>

\* The children read without the offset l.
SiftLargestNoOffset(a, l, n, i) ==
  LET left == 2 * i + 1
      right == left + 1
      first == IF left < n /\ a[left] > a[l + i] THEN left ELSE i
  IN  IF right < n /\ a[right] > a[l + first] THEN right ELSE first

\* The index, relative to l, that one round of sift finds largest.
SiftLargest(a, l, n, i) ==
  LET left == 2 * i + 1
      right == left + 1
      first == IF left < n /\ a[l + left] > a[l + i] THEN left ELSE i
  IN  IF right < n /\ a[l + right] > a[l + first] THEN right ELSE first

\* One round of sift(l, n, i) up to `if largest == i: break`; on the break
\* sift returns into the loop that called it.
Sift ==
  /\ pc = "sift"
  /\ LET largest == SiftLargest(arr, loc.low, loc.sn, loc.si) IN
       IF largest = loc.si
         THEN IF loc.phase = "build"
                THEN /\ loc' = [loc EXCEPT !.i = @ - 1]
                     /\ pc' = "heap_build"
                ELSE /\ loc' = [loc EXCEPT !.end = @ - 1]
                     /\ pc' = "heap_pop"
         ELSE /\ loc' = [loc EXCEPT !.largest = largest]
              /\ pc' = "sift_swap"
  /\ UNCHANGED <<input, arr, entry, stack, nPart, nIns, nHeap>>

\* arr[l + i], arr[l + largest] = arr[l + largest], arr[l + i]: first store
SiftFirstWrite ==
  /\ pc = "sift_swap"
  /\ loc' = [loc EXCEPT !.temp = arr[loc.low + loc.si]]
  /\ arr' = [arr EXCEPT ![loc.low + loc.si] = arr[loc.low + loc.largest]]
  /\ pc' = "sift_swap2"
  /\ UNCHANGED <<input, entry, stack, nPart, nIns, nHeap>>

\* ... second store; i = largest
SiftSecondWrite ==
  /\ pc = "sift_swap2"
  /\ arr' = [arr EXCEPT ![loc.low + loc.largest] = loc.temp]
  /\ loc' = [loc EXCEPT !.si = loc.largest]
  /\ pc' = "sift"
  /\ UNCHANGED <<input, entry, stack, nPart, nIns, nHeap>>

\* for end in range(n - 1, 0, -1); when it is exhausted _heapsort_partial
\* returns, and so does the _introsort that called it.
HeapPop ==
  /\ pc = "heap_pop"
  /\ pc' = IF loc.end >= 1 THEN "pop_swap"
           ELSE IF stack = <<>> THEN "done" ELSE "return"
  /\ UNCHANGED <<input, arr, entry, stack, loc, nPart, nIns, nHeap>>

\* arr[low], arr[low + end] = arr[low + end], arr[low]: first store
PopFirstWrite ==
  /\ pc = "pop_swap"
  /\ loc' = [loc EXCEPT !.temp = arr[loc.low]]
  /\ arr' = [arr EXCEPT ![loc.low] = arr[loc.low + loc.end]]
  /\ pc' = "pop_swap2"
  /\ UNCHANGED <<input, entry, stack, nPart, nIns, nHeap>>

\* ... second store; sift(low, end, 0)
PopSecondWrite ==
  /\ pc = "pop_swap2"
  /\ arr' = [arr EXCEPT ![loc.low + loc.end] = loc.temp]
  /\ loc' = [loc EXCEPT !.si = 0, !.sn = loc.end, !.phase = "pop"]
  /\ pc' = "sift"
  /\ UNCHANGED <<input, entry, stack, nPart, nIns, nHeap>>

\* ----------------------------------------------------------- specification
Next ==
  \/ CallIntrosort
  \/ Dispatch
  \/ PartitionAdvanceI
  \/ PartitionScanI
  \/ PartitionAdvanceJ
  \/ PartitionScanJ
  \/ PartitionTest
  \/ SwapFirstWrite
  \/ SwapSecondWrite
  \/ Recurse
  \/ Return
  \/ InsertionFor
  \/ InsertionWhile
  \/ InsertionPut
  \/ CallHeapsortPartial
  \/ HeapBuild
  \/ Sift
  \/ SiftFirstWrite
  \/ SiftSecondWrite
  \/ HeapPop
  \/ PopFirstWrite
  \/ PopSecondWrite

Spec == Init /\ [][Next]_vars

\* The calls on the plain buffers.
InitPlain == Init /\ input \in PlainBuffers

\* The call is synchronous and single-threaded: a function that has a next
\* statement executes it.
FairSpec == InitPlain /\ [][Next]_vars /\ WF_vars(Next)

Done == pc = "done"

\* ------------------------------------------------- the baseline comparators
\* The list a with the elements at x and y exchanged.
Swapped(a, x, y) == [a EXCEPT ![x] = a[y], ![y] = a[x]]

\* _sift_down(arr, n, i)
RECURSIVE SiftDown(_, _, _)
SiftDown(a, n, i) ==
  LET left == 2 * i + 1
      right == left + 1
      first == IF left < n /\ a[left] > a[i] THEN left ELSE i
      largest == IF right < n /\ a[right] > a[first] THEN right ELSE first
  IN  IF largest = i THEN a ELSE SiftDown(Swapped(a, i, largest), n, largest)

\* for i in range((n >> 1) - 1, -1, -1): _sift_down(arr, n, i)
RECURSIVE HeapsortBuild(_, _, _)
HeapsortBuild(a, n, i) ==
  IF i < 0 THEN a ELSE HeapsortBuild(SiftDown(a, n, i), n, i - 1)

\* for end in range(n - 1, 0, -1): swap arr[0], arr[end]; _sift_down(arr, end, 0)
RECURSIVE HeapsortPop(_, _)
HeapsortPop(a, end) ==
  IF end < 1 THEN a ELSE HeapsortPop(SiftDown(Swapped(a, 0, end), end, 0), end - 1)

Heapsort(a) ==
  LET n == Size(a) IN HeapsortPop(HeapsortBuild(a, n, Shr1(n) - 1), n - 1)

\* while arr[i] < pivot: i += 1
RECURSIVE ScanUp(_, _, _)
ScanUp(a, i, pivot) == IF a[i] < pivot THEN ScanUp(a, i + 1, pivot) ELSE i

\* while arr[j] > pivot: j -= 1
RECURSIVE ScanDown(_, _, _)
ScanDown(a, j, pivot) == IF a[j] > pivot THEN ScanDown(a, j - 1, pivot) ELSE j

\* The while True loop of _hoare_partition, from cursors i and j.
RECURSIVE HoareLoop(_, _, _, _)
HoareLoop(a, i, j, pivot) ==
  LET i2 == ScanUp(a, i + 1, pivot)
      j2 == ScanDown(a, j - 1, pivot)
  IN  IF i2 >= j2 THEN [arr |-> a, p |-> j2]
      ELSE HoareLoop(Swapped(a, i2, j2), i2, j2, pivot)

\* _hoare_partition(arr, low, high): the buffer afterwards and the index returned
HoarePartition(a, low, high) == HoareLoop(a, low - 1, high + 1, a[Shr1(low + high)])

\* quicksort_hoare(arr, low, high)
RECURSIVE QuicksortHoare(_, _, _)
QuicksortHoare(a, low, high) ==
  IF ~(low < high) THEN a
  ELSE LET r == HoarePartition(a, low, high) IN
         IF r.p - low < high - r.p
           THEN QuicksortHoare(QuicksortHoare(r.arr, low, r.p), r.p + 1, high)
           ELSE QuicksortHoare(QuicksortHoare(r.arr, r.p + 1, high), low, r.p)

\* Python lists as sequences: the list a, and the slice s[x:y].
AsSeq(a) == [k \in 1..Size(a) |-> a[k - 1]]

AsList(s) == [k \in 0..(Len(s) - 1) |-> s[k + 1]]

Slice(s, x, y) == SubSeq(s, Min2(x, Len(s)) + 1, Min2(y, Len(s)))

\* The tail with merged.extend(left[i:]) left out.
MergeTailDropsLeft(left, right, i, j) == Slice(right, j, Len(right))

\* merged.extend(left[i:]); merged.extend(right[j:])
MergeTail(left, right, i, j) == Slice(left, i, Len(left)) \o Slice(right, j, Len(right))

\* The while loop of _merge from positions i and j, then the two extends.
RECURSIVE MergeFrom(_, _, _, _, _)
MergeFrom(left, right, i, j, merged) ==
  IF i < Len(left) /\ j < Len(right)
    THEN IF left[i + 1] < right[j + 1]
           THEN MergeFrom(left, right, i + 1, j, Append(merged, left[i + 1]))
           ELSE MergeFrom(left, right, i, j + 1, Append(merged, right[j + 1]))
    ELSE merged \o MergeTail(left, right, i, j)

\* _merge(left, right)
Merge(left, right) == MergeFrom(left, right, 0, 0, <<>>)

\* mergesort(arr)
RECURSIVE Mergesort(_)
Mergesort(s) ==
  IF Len(s) <= 1 THEN s
  ELSE LET mid == Len(s) \div 2 IN
         Merge(Mergesort(Slice(s, 0, mid)), Mergesort(Slice(s, mid, Len(s))))

\* for i in range(0, n, 2 * width): result[i:i+2*width] = _merge(...)
RECURSIVE BottomUpPass(_, _, _)
BottomUpPass(result, i, width) ==
  IF i >= Len(result) THEN result
  ELSE LET left == Slice(result, i, i + width)
           right == Slice(result, i + width, i + 2 * width)
       IN  BottomUpPass(Slice(result, 0, i) \o Merge(left, right)
                          \o Slice(result, i + 2 * width, Len(result)),
                        i + 2 * width, width)

\* while width < n: one pass; width *= 2
RECURSIVE BottomUpFrom(_, _)
BottomUpFrom(result, width) ==
  IF width < Len(result)
    THEN BottomUpFrom(BottomUpPass(result, 0, width), 2 * width)
    ELSE result

\* mergesort_bottom_up(arr)
MergesortBottomUp(s) == BottomUpFrom(s, 1)

\* ------------------------------------------------------------ vocabulary
IsSorted(a) == \A k \in DOMAIN a : (k + 1) \in DOMAIN a => a[k] <= a[k + 1]

Count(a, v) == Cardinality({k \in DOMAIN a : a[k] = v})

SameMultiset(a, b) ==
  /\ DOMAIN a = DOMAIN b
  /\ \A k \in DOMAIN a : Count(a, a[k]) = Count(b, a[k])

RECURSIVE FloorLog2(_)
FloorLog2(n) == IF n < 2 THEN 0 ELSE 1 + FloorLog2(n \div 2)

RangeSize(f) == f.high - f.low + 1

IntrosortDone == pc = "done" /\ entry = "introsort"

HeapsortPartialDone == pc = "done" /\ entry = "_heapsort_partial"

InInsertionSort == pc \in {"ins_for", "ins_while", "ins_put"}

InHeapFallback ==
  pc \in {"heap_build", "sift", "sift_swap", "sift_swap2", "heap_pop", "pop_swap", "pop_swap2"}

\* ================================================================== claims

\* C1: when introsort returns, the buffer is non-decreasing and holds the
\* same multiset of elements as the input, for every input (lengths 0, 1
\* and 2, all-equal, sorted and reversed inputs among them).
C1_SortedPermutation ==
  IntrosortDone => IsSorted(arr) /\ SameMultiset(arr, input)

\* C1 witness: a reversed input of more than 16 elements has been sorted
\* through partition steps and insertion sorts.
C1_Witness ==
  /\ IntrosortDone
  /\ Size(input) > InsertionThreshold
  /\ input = Descending(Size(input))
  /\ nPart > 0
  /\ nIns > 0

\* C2: heapsort, quicksort_hoare, mergesort, mergesort_bottom_up and
\* introsort, each on its own copy of the input, return the same sequence.
C2_AllAlgorithmsAgree ==
  IntrosortDone =>
    /\ Heapsort(input) = QuicksortHoare(input, 0, Size(input) - 1)
    /\ QuicksortHoare(input, 0, Size(input) - 1) = AsList(Mergesort(AsSeq(input)))
    /\ AsList(Mergesort(AsSeq(input))) = AsList(MergesortBottomUp(AsSeq(input)))
    /\ AsList(MergesortBottomUp(AsSeq(input))) = arr

\* C2 witness: the five algorithms have run on an unsorted input that
\* introsort had to partition.
C2_Witness ==
  /\ IntrosortDone
  /\ nPart > 0
  /\ ~IsSorted(input)
  /\ \E k \in DOMAIN input : Count(input, input[k]) > 1

\* C3: every call of introsort terminates: the driver loop and the Hoare
\* partition loop finish on every buffer, all-equal buffers included.
C3_Terminates == <>Done

\* C3 witness: introsort has returned on an all-equal buffer that it had to
\* partition.
C3_Witness ==
  /\ IntrosortDone
  /\ Size(input) > InsertionThreshold
  /\ \A k \in DOMAIN input : input[k] = input[0]
  /\ nPart > 0

\* C4 (as claimed): in every reachable state of an introsort call, the
\* states between two single buffer writes included, the buffer holds the
\* multiset of the input.
C4_AlwaysPermutation == entry = "introsort" => SameMultiset(arr, input)

\* C4 at the comparison arr[j] > temp of insertion sort: the buffer a failing
\* comparison would leave behind holds the multiset of the input.
C4_PermutationAtInsertionComparison ==
  (entry = "introsort" /\ pc = "ins_while" /\ loc.j >= loc.low)
    => SameMultiset(arr, input)

\* C5 (as claimed): on an input whose partitions stay unbalanced for
\* 2*floor(log2(n)) successive partition steps, the driver reaches the loop
\* head with more than 16 elements left and then invokes _heapsort_partial.
C5_HeapFallbackOnExhaustion ==
  [][(/\ pc = "loop"
      /\ RangeSize(Top) > InsertionThreshold
      /\ Top.chain >= 2 * FloorLog2(Size(input)))
       => pc' = "heap_build"]_vars

\* C5, what the code does: no call of introsort ever reaches the heap fallback.
C5_HeapFallbackNeverTaken == entry = "introsort" => nHeap = 0 /\ ~InHeapFallback

\* C6 (as claimed): the budget in force for the current range is
\* 2*floor(log2(n)) less the partition steps performed on the ranges that
\* enclose it, on the nested call and on the loop's next round alike.
C6_BudgetTracksChain ==
  (pc = "loop" /\ Size(input) >= 1) => Top.maxdepth = 2 * FloorLog2(Size(input)) - Top.chain

\* C6, what the code does: only the nested call takes one off the budget, so
\* the budget in force is 2*floor(log2(n)) less the nesting depth.
C6_BudgetTracksNesting ==
  (pc = "loop" /\ Size(input) >= 1)
    => Top.maxdepth = 2 * FloorLog2(Size(input)) - (Len(stack) - 1)

\* C7: when the partition loop finishes on [low, high], the split index j
\* has low <= j < high, everything at low..j is <= pivot and everything at
\* j+1..high is >= pivot.
C7_SplitInvariant ==
  pc = "split" =>
    /\ Top.low <= Top.j
    /\ Top.j < Top.high
    /\ \A k \in Top.low..Top.j : arr[k] <= Top.pivot
    /\ \A k \in (Top.j + 1)..Top.high : arr[k] >= Top.pivot

\* C7 witness: a partition loop has finished after exchanging elements, with
\* elements below and above the pivot on the two sides.
C7_Witness ==
  /\ pc = "split"
  /\ arr # input
  /\ \E k \in Top.low..Top.j : arr[k] < Top.pivot
  /\ \E k \in (Top.j + 1)..Top.high : arr[k] > Top.pivot

\* C8: every nested call gets the subrange that is no larger than the one
\* its caller keeps, hence at most half of the caller's range, and at most
\* floor(log2(n)) + 1 activations of _introsort are active at once.
C8_SmallerFirstBoundsDepth ==
  /\ \A k \in 2..Len(stack) : 2 * RangeSize(stack[k]) <= RangeSize(stack[k - 1])
  /\ \A k \in 2..Len(stack) :
       LET c == stack[k - 1]
           kept == IF c.ret = "left" THEN c.high - c.j ELSE c.j - c.low + 1
       IN  RangeSize(stack[k]) <= kept
  /\ Size(input) >= 1 => Len(stack) <= FloorLog2(Size(input)) + 1

\* C8 witness: three activations are active, the innermost one running
\* insertion sort on its subrange while its callers wait with the larger ones.
C8_Witness ==
  /\ Len(stack) = 3
  /\ RangeSize(stack[3]) > 1
  /\ pc = "ins_while"

\* C9: an input of 2..16 elements is sorted by exactly one insertion sort
\* over the whole range, with no partition step and no heap fallback; on an
\* input of 17 elements a partition step comes before any insertion sort.
C9_SizeDecidesFirst ==
  entry = "introsort" =>
    /\ (Size(input) >= 2 /\ Size(input) <= InsertionThreshold) =>
         /\ nPart = 0
         /\ nHeap = 0
         /\ nIns <= 1
         /\ InInsertionSort => (loc.low = 0 /\ loc.high = Size(input) - 1)
         /\ pc = "done" => nIns = 1
    /\ (Size(input) = InsertionThreshold + 1) =>
         /\ nIns > 0 => nPart > 0
         /\ pc = "done" => nPart > 0

\* C9 witness: the strictly descending input of 17 elements has been sorted,
\* by a partition step and then insertion sorts.
C9_Witness ==
  /\ IntrosortDone
  /\ Size(input) = InsertionThreshold + 1
  /\ input = Descending(Size(input))
  /\ nPart >= 1
  /\ nIns >= 1

\* C10: after _heapsort_partial(arr, low, high) the slice low..high is
\* non-decreasing and a permutation of what it held, and every element
\* outside it is unchanged.
C10_HeapsortPartialSortsSlice ==
  HeapsortPartialDone =>
    /\ \A k \in loc.low..(loc.high - 1) : arr[k] <= arr[k + 1]
    /\ \A k \in loc.low..loc.high :
         Cardinality({x \in loc.low..loc.high : arr[x] = arr[k]})
           = Cardinality({x \in loc.low..loc.high : input[x] = arr[k]})
    /\ \A k \in DOMAIN arr : (k < loc.low \/ k > loc.high) => arr[k] = input[k]

\* C10 witness: a slice strictly inside the buffer, unsorted before the
\* call, has been heap-sorted.
C10_Witness ==
  /\ HeapsortPartialDone
  /\ loc.low > 0
  /\ loc.high < Size(input) - 1
  /\ loc.high - loc.low >= 2
  /\ \E k \in loc.low..(loc.high - 1) : input[k] > input[k + 1]

=============================================================================
